---- MODULE Spec2Model ----
(***************************************************************************)
(* Model of "POO UNIDAD 2/Notificaciones.py": the Observer subject         *)
(* Notificacion, the observer Usuario and the NotificacionFactory.         *)
(*                                                                         *)
(* Python strings that the code transforms (channel identifiers, names,    *)
(* addresses) are sequences of one-character strings, so that str.strip    *)
(* and str.lower are computed and not assumed.  Messages are never         *)
(* transformed and stay TLA+ strings.                                      *)
(***************************************************************************)
EXTENDS Integers, Sequences, FiniteSets, TLC

VARIABLES
    usuarios,      \* observer id -> the fields of the Usuario object
    listas,        \* heap of list objects: reference -> channel list
    observadores,  \* Notificacion._observadores
    pc,            \* "idle", "bucle" (in the for loop), "en_actualizar"
    snapshot,      \* the copy list(self._observadores) the loop iterates
    idx,           \* position of the list iterator
    mensaje,       \* argument of the running notificar_observadores
    salida,        \* the lines printed by the last step
    entregas,      \* the enviar calls of the current round, with their observer
    llamadas,      \* the actualizar calls of the current round and how each ended
    inicio,        \* _observadores when the current round began
    mutaciones,    \* add/remove calls made from inside actualizar this round
    resultado,     \* how the last notificar_observadores ended
    ultima,        \* the call made by the last step: agregar/eliminar and the
                   \* list before it, or the exception actualizar raised
    tipo,          \* argument of the direct crear_notificacion call
    notifier       \* its result, "pendiente" before the call

vars == <<usuarios, listas, observadores, pc, snapshot, idx, mensaje, salida,
          entregas, llamadas, inicio, mutaciones, resultado, ultima, tipo,
          notifier>>

\* ------------------------------------------------------------------ bounds
NumObs == 3
MaxMut == 2
MaxCanales == 3
MaxLen == 5

Obs == 1..NumObs
Mensajes == {"X", "Y"}

\* ----------------------------------------------------------------- strings
UpperChars == <<"A","B","C","D","E","F","G","H","I","J","K","L","M",
                "N","O","P","Q","R","S","T","U","V","W","X","Y","Z">>
LowerChars == <<"a","b","c","d","e","f","g","h","i","j","k","l","m",
                "n","o","p","q","r","s","t","u","v","w","x","y","z">>
Whitespace == {" ", "\t", "\n"}

LowerMap ==
    [c \in {UpperChars[i] : i \in 1..Len(UpperChars)} |->
        LowerChars[CHOOSE i \in 1..Len(UpperChars) : UpperChars[i] = c]]
lower_char(c) == IF c \in DOMAIN LowerMap THEN LowerMap[c] ELSE c

\* str.lower
lower(s) == [i \in 1..Len(s) |-> lower_char(s[i])]

\* str.strip with no argument: drops leading and trailing whitespace
strip(s) ==
    LET keep == {i \in 1..Len(s) : s[i] \notin Whitespace}
    IN IF keep = {} THEN <<>>
       ELSE SubSeq(s, CHOOSE i \in keep : \A j \in keep : i <= j,
                      CHOOSE i \in keep : \A j \in keep : i >= j)

S_email == <<"e","m","a","i","l">>
S_sms == <<"s","m","s">>
S_push == <<"p","u","s","h">>
S_telegram == <<"t","e","l","e","g","r","a","m">>
S_dominio == <<"@","e","x","a","m","p","l","e",".","c","o","m">>
S_ceros == <<"0","0","0","0","0","0","0","0","0","0">>

\* mutant of crear_notificacion: lower() without strip()
crear_notificacion_sin_strip(t0) ==
    LET t == lower(t0)
    IN IF t = S_email THEN "EmailNotificacion"
       ELSE IF t = S_sms THEN "SMSNotificacion"
       ELSE IF t = S_push THEN "PushNotificacion"
       ELSE "None"

\* ----------------------------------------------------------------- factory
crear_notificacion(t0) ==
    LET t == lower(strip(t0))
    IN IF t = S_email THEN "EmailNotificacion"
       ELSE IF t = S_sms THEN "SMSNotificacion"
       ELSE IF t = S_push THEN "PushNotificacion"
       ELSE "None"

\* ----------------------------------------------------------------- Usuario
\* List objects live in the heap `listas` (reference -> contents); reference
\* 0 is a list held by the caller, reference o is the list created for
\* observer o.  An optional list argument is a set of at most one reference:
\* {} is None.
Refs == 0..NumObs

\* mutant: `if canales_preferidos is None` in place of `or`
truthy_solo_none(h, canales) == canales # {}

\* the truth value Python gives an Optional[List[str]] in `x or y`
truthy(h, canales) == canales # {} /\ \A r \in canales : h[r] # <<>>

\* Usuario.__init__: `fresh` is the reference the new list ["email"] gets
\* when the argument is None or empty
Usuario(h, nombre, email, telefono, canales, fresh) ==
    [nombre |-> nombre, email |-> email, telefono |-> telefono,
     canales_preferidos |->
        IF truthy(h, canales) THEN CHOOSE r \in canales : TRUE ELSE fresh]

\* the heap after Usuario.__init__
heap_init(h, canales, fresh) ==
    IF truthy(h, canales) THEN h ELSE [h EXCEPT ![fresh] = <<S_email>>]

\* mutant of the destination: the placeholder address built from the name as
\* written, without lower()
destino_sin_lower(u, canal) ==
    IF lower(canal) = S_email
    THEN (IF u.email # <<>> THEN u.email ELSE u.nombre \o S_dominio)
    ELSE IF lower(canal) = S_sms
    THEN (IF u.telefono # <<>> THEN u.telefono ELSE S_ceros)
    ELSE u.nombre

\* the destination chosen in Usuario.actualizar for one resolved channel
destino(u, canal) ==
    IF lower(canal) = S_email
    THEN (IF u.email # <<>> THEN u.email ELSE lower(u.nombre) \o S_dominio)
    ELSE IF lower(canal) = S_sms
    THEN (IF u.telefono # <<>> THEN u.telefono ELSE S_ceros)
    ELSE IF lower(canal) = S_push
    THEN u.nombre
    ELSE u.nombre

\* INotificacion.enviar: one record of the delivery sink
enviar(sender, m, d) ==
    [tipo |-> "envio", sender |-> sender, destino |-> d, mensaje |-> m]

LineaRecibe(u, m) == [tipo |-> "recibe", nombre |-> u.nombre, mensaje |-> m]
LineaDesconocido(u, canal) ==
    [tipo |-> "desconocido", nombre |-> u.nombre, canal |-> canal]

\* one iteration of the for loop of Usuario.actualizar
paso_canal(u, canal, m) ==
    LET n == crear_notificacion(canal)
    IN IF n = "None" THEN LineaDesconocido(u, canal)
       ELSE enviar(n, m, destino(u, canal))

\* mutants of Usuario.actualizar: `break` in place of `continue` at an
\* unknown channel; the channels walked from the last to the first
actualizar_break(h, u, m) ==
    LET cs == h[u.canales_preferidos]
        desc == {i \in 1..Len(cs) : crear_notificacion(cs[i]) = "None"}
        n == IF desc = {} THEN Len(cs)
             ELSE CHOOSE i \in desc : \A j \in desc : i <= j
    IN <<LineaRecibe(u, m)>> \o [i \in 1..n |-> paso_canal(u, cs[i], m)]
actualizar_invertido(h, u, m) ==
    LET cs == h[u.canales_preferidos]
    IN <<LineaRecibe(u, m)>> \o
       [i \in 1..Len(cs) |-> paso_canal(u, cs[Len(cs) + 1 - i], m)]

\* Usuario.actualizar: everything it prints, in order
actualizar(h, u, m) ==
    LET cs == h[u.canales_preferidos]
    IN <<LineaRecibe(u, m)>> \o [i \in 1..Len(cs) |-> paso_canal(u, cs[i], m)]

EsEnvio(l) == l.tipo = "envio"

\* mutant: actualizar stores the placeholder address it computed in the field
tras_actualizar_guarda(u) ==
    [u EXCEPT !.email = IF u.email # <<>> THEN u.email
                        ELSE lower(u.nombre) \o S_dominio]

\* the fields of the Usuario after actualizar: the method assigns to none
tras_actualizar(u) == u

\* ------------------------------------------------------------ Notificacion
\* `x in lista`
contiene(l, o) == \E i \in 1..Len(l) : l[i] = o

\* mutant: removal that moves the last element into the hole
quitar_swap(l, o) ==
    LET i == CHOOSE k \in 1..Len(l) : l[k] = o
    IN [k \in 1..(Len(l) - 1) |-> IF k = i THEN l[Len(l)] ELSE l[k]]

\* list.remove: drops the first occurrence
quitar(l, o) ==
    LET i == CHOOSE k \in 1..Len(l) : l[k] = o /\ \A j \in 1..(k-1) : l[j] # o
    IN SubSeq(l, 1, i-1) \o SubSeq(l, i+1, Len(l))

LineaAgregado(o) == [tipo |-> "agregado", obs |-> o]
LineaEliminado(o) == [tipo |-> "eliminado", obs |-> o]
LineaNotificando(n, m) == [tipo |-> "notificando", n |-> n, mensaje |-> m]
LineaError(o, e) == [tipo |-> "error", obs |-> o, detalle |-> e.detalle]

\* ultima when the last step was no agregar/eliminar call
NingunaLlamada == [op |-> "ninguna", obs |-> 0, antes |-> <<>>]

\* mutants of agregar_observador: the membership test dropped; the line
\* printed on every call
lista_agregar_sin_prueba(l, o) == Append(l, o)
salida_agregar_siempre(l, o) == <<LineaAgregado(o)>>

\* the list and the output of Notificacion.agregar_observador
lista_agregar(l, o) == IF ~contiene(l, o) THEN Append(l, o) ELSE l
salida_agregar(l, o) == IF ~contiene(l, o) THEN <<LineaAgregado(o)>> ELSE <<>>

\* mutant of eliminar_observador: the line printed on every call
salida_eliminar_siempre(l, o) == <<LineaEliminado(o)>>

\* the list and the output of Notificacion.eliminar_observador
lista_eliminar(l, o) == IF contiene(l, o) THEN quitar(l, o) ELSE l
salida_eliminar(l, o) == IF contiene(l, o) THEN <<LineaEliminado(o)>> ELSE <<>>

\* what an observer's actualizar may raise: Exception subclasses and
\* exceptions that derive from BaseException only
Excepciones ==
    { [tipo |-> "ValueError", detalle |-> "boom"],
      [tipo |-> "SystemExit", detalle |-> "1"] }
es_Exception(e) == e.tipo \in {"ValueError"}

\* mutant: a handler for ValueError's sibling classes only, catching nothing
\* that is raised here
capturada_nunca(e) == FALSE

\* `except Exception as e` in notificar_observadores
capturada(e) == es_Exception(e)

\* mutants of the loop: it iterates the live list; it stops one short
iterable_vivo == observadores
iterable_corto == SubSeq(snapshot, 1, Len(snapshot) - 1)

\* the list the for loop of notificar_observadores iterates
iterable == snapshot

\* the observer whose actualizar is running
actual == llamadas[Len(llamadas)].obs

\* llamadas with the outcome of the running call set
fin_llamada(f) == [llamadas EXCEPT ![Len(llamadas)].fin = f]

\* a caller of agregar/eliminar: the program at top level, or an observer
\* from inside its own actualizar
puede_llamar ==
    \/ pc = "idle"
    \/ pc = "en_actualizar" /\ mutaciones < MaxMut

\* The record of a round (llamadas, entregas, inicio, mensaje, resultado,
\* mutaciones) is kept until the next top-level call and then dropped; a
\* call from inside actualizar is counted in the running round.
registro_ronda ==
    IF pc = "idle"
    THEN /\ llamadas' = <<>>
         /\ entregas' = <<>>
         /\ inicio' = <<>>
         /\ mensaje' = ""
         /\ resultado' = "ninguno"
         /\ mutaciones' = 0
    ELSE /\ mutaciones' = mutaciones + 1
         /\ UNCHANGED <<llamadas, entregas, inicio, mensaje, resultado>>

agregar_observador(o) ==
    /\ puede_llamar
    /\ observadores' = lista_agregar(observadores, o)
    /\ salida' = salida_agregar(observadores, o)
    /\ ultima' = [op |-> "agregar", obs |-> o, antes |-> observadores]
    /\ registro_ronda
    /\ UNCHANGED <<usuarios, listas, pc, snapshot, idx, tipo, notifier>>

eliminar_observador(o) ==
    /\ puede_llamar
    /\ observadores' = lista_eliminar(observadores, o)
    /\ salida' = salida_eliminar(observadores, o)
    /\ ultima' = [op |-> "eliminar", obs |-> o, antes |-> observadores]
    /\ registro_ronda
    /\ UNCHANGED <<usuarios, listas, pc, snapshot, idx, tipo, notifier>>

\* notificar_observadores up to the start of the loop: the header line and
\* the copy of the list
notificar_observadores(m) ==
    /\ pc = "idle"
    /\ salida' = <<LineaNotificando(Len(observadores), m)>>
    /\ snapshot' = observadores
    /\ idx' = 0
    /\ mensaje' = m
    /\ pc' = "bucle"
    /\ entregas' = <<>>
    /\ llamadas' = <<>>
    /\ inicio' = observadores
    /\ mutaciones' = 0
    /\ resultado' = "en_curso"
    /\ ultima' = NingunaLlamada
    /\ UNCHANGED <<usuarios, listas, observadores, tipo, notifier>>

\* one iteration: obs.actualizar(mensaje) is called.  Every observer is a
\* Usuario or an object of a subclass whose actualizar runs Usuario.actualizar
\* and then goes on (pc = "en_actualizar"): it may call agregar/eliminar on
\* the subject, and it returns or raises.  A plain Usuario returns at once.
iterar ==
    /\ pc = "bucle"
    /\ idx < Len(iterable)
    /\ LET o == iterable[idx + 1]
           out == actualizar(listas, usuarios[o], mensaje)
       IN /\ idx' = idx + 1
          /\ llamadas' = Append(llamadas, [obs |-> o, mensaje |-> mensaje,
                                         fin |-> "en_curso"])
          /\ salida' = out
          /\ entregas' = entregas \o
                [i \in 1..Len(SelectSeq(out, EsEnvio)) |->
                    [obs |-> o, envio |-> SelectSeq(out, EsEnvio)[i]]]
          /\ usuarios' = [usuarios EXCEPT ![o] = tras_actualizar(usuarios[o])]
    /\ pc' = "en_actualizar"
    /\ ultima' = NingunaLlamada
    /\ UNCHANGED <<listas, observadores, snapshot, mensaje,
                   inicio, mutaciones, resultado, tipo, notifier>>

\* the observer's actualizar returns
retornar_actualizar ==
    /\ pc = "en_actualizar"
    /\ pc' = "bucle"
    /\ salida' = <<>>
    /\ llamadas' = fin_llamada("retorno")
    /\ ultima' = NingunaLlamada
    /\ UNCHANGED <<usuarios, listas, observadores, snapshot, idx, mensaje,
                   entregas, inicio, mutaciones, resultado, tipo, notifier>>

\* the observer's actualizar raises e: the try/except of the loop catches
\* it and prints the error line, or it leaves notificar_observadores
lanzar_actualizar(e) ==
    /\ pc = "en_actualizar"
    /\ IF capturada(e)
       THEN /\ salida' = <<LineaError(actual, e)>>
            /\ pc' = "bucle"
            /\ llamadas' = fin_llamada("capturada")
            /\ UNCHANGED <<resultado, snapshot, idx>>
       ELSE /\ salida' = <<>>
            /\ pc' = "idle"
            /\ llamadas' = fin_llamada("propagada")
            /\ resultado' = "propagada"
            /\ snapshot' = <<>>
            /\ idx' = 0
    /\ ultima' = [op |-> "lanzar", obs |-> actual, antes |-> <<>>,
                  tipo |-> e.tipo, detalle |-> e.detalle]
    /\ UNCHANGED <<usuarios, listas, observadores, mensaje,
                   entregas, inicio, mutaciones, tipo, notifier>>

\* the iterator is exhausted: notificar_observadores returns
fin_notificar ==
    /\ pc = "bucle"
    /\ idx >= Len(iterable)
    /\ pc' = "idle"
    /\ resultado' = "normal"
    /\ salida' = <<>>
    /\ snapshot' = <<>>
    /\ idx' = 0
    /\ ultima' = NingunaLlamada
    /\ UNCHANGED <<usuarios, listas, observadores, mensaje,
                   entregas, llamadas, inicio, mutaciones, tipo, notifier>>

\* ------------------------------------------------------------------- Init
S_Alice == <<"A","l","i","c","e">>
S_Bob == <<"B","o","b">>
S_Diego == <<"D","i","e","g","o">>
S_mailA == <<"a","@","x">>
S_telB == <<"+","5","2">>

\* the observers of the subject: users like those of main() (with the
\* unknown channel main() appends to diego, a repeated channel and a channel
\* whose contact field is empty), repeated cyclically
Perfiles ==
    << [nombre |-> S_Alice, email |-> S_mailA, telefono |-> <<>>,
        canales |-> <<S_email, S_push>>],
       [nombre |-> S_Bob, email |-> <<>>, telefono |-> S_telB,
        canales |-> <<S_sms>>],
       [nombre |-> S_Diego, email |-> <<>>, telefono |-> <<>>,
        canales |-> <<S_push, S_telegram, S_push, S_email>>] >>
Perfil(o) == Perfiles[((o - 1) % Len(Perfiles)) + 1]

\* the heap and the objects after Usuario(...) was called for every profile,
\* each with its own list literal
ListasPerfiles == [r \in Refs |-> IF r = 0 THEN <<>> ELSE Perfil(r).canales]
UsuariosPerfiles ==
    [o \in Obs |-> Usuario(ListasPerfiles, Perfil(o).nombre, Perfil(o).email,
                           Perfil(o).telefono, {o}, o)]

InitResto ==
    /\ observadores = <<>>
    /\ pc = "idle"
    /\ snapshot = <<>>
    /\ idx = 0
    /\ mensaje = ""
    /\ salida = <<>>
    /\ entregas = <<>>
    /\ llamadas = <<>>
    /\ inicio = <<>>
    /\ mutaciones = 0
    /\ resultado = "ninguno"
    /\ ultima = NingunaLlamada

Init ==
    /\ listas = ListasPerfiles
    /\ usuarios = UsuariosPerfiles
    /\ InitResto
    /\ tipo = <<>>
    /\ notifier = "pendiente"

Next ==
    \/ \E o \in Obs : agregar_observador(o)
    \/ \E o \in Obs : eliminar_observador(o)
    \/ \E m \in Mensajes : notificar_observadores(m)
    \/ iterar
    \/ retornar_actualizar
    \/ \E e \in Excepciones : lanzar_actualizar(e)
    \/ fin_notificar

Spec == Init /\ [][Next]_vars

\* notificar_observadores runs in one thread from its first line to its
\* return: once inside the call, control moves on.  The loop takes its next
\* iteration or leaves, and a called actualizar (Usuario.actualizar is a loop
\* over a finite list) comes back, by returning or by raising.  The steps
\* that move pc away from a value other than "idle" are exactly iterar,
\* retornar_actualizar, lanzar_actualizar and fin_notificar.
avanzar == pc # "idle" /\ pc' \in {"idle", "bucle", "en_actualizar"} \ {pc}

\* the program with one message, which the loop passes on and never reads
NextJusta ==
    \/ \E o \in Obs : agregar_observador(o)
    \/ \E o \in Obs : eliminar_observador(o)
    \/ notificar_observadores("X")
    \/ iterar
    \/ retornar_actualizar
    \/ \E e \in Excepciones : lanzar_actualizar(e)
    \/ fin_notificar

SpecJusta == Init /\ [][NextJusta]_vars /\ WF_pc(avanzar)

\* ------------------------------------------- direct calls: factory, Usuario
\* Channel strings given to the factory: every string of at most MaxLen
\* characters over a small alphabet that spells "sms" in both cases with
\* whitespace, and the three channel names in every mix of cases between
\* every pair of margins, with near misses.
Alfabeto == {"s", "S", "m", "M", " ", "\t", "x"}
Margenes == {<<>>, <<" ">>, <<"\t">>, <<"\n", " ">>}
UpperMap ==
    [c \in {LowerChars[i] : i \in 1..Len(LowerChars)} |->
        UpperChars[CHOOSE i \in 1..Len(LowerChars) : LowerChars[i] = c]]
mayus(c) == IF c \in DOMAIN UpperMap THEN UpperMap[c] ELSE c
Variantes(w) ==
    {[i \in 1..Len(w) |-> IF i \in S THEN mayus(w[i]) ELSE w[i]] :
        S \in SUBSET (1..Len(w))}
Cadenas ==
    UNION {[1..n -> Alfabeto] : n \in 0..MaxLen}
    \cup {a \o w \o b : a \in Margenes, b \in Margenes,
                       w \in Variantes(S_email) \cup Variantes(S_push)
                             \cup Variantes(S_sms)}
    \cup {S_telegram, S_email \o <<"s">>, <<"e"," ","m","a","i","l">>,
          <<"e","m","a","i">>, <<"p","u","s","h","\t","x">>}

\* the direct call NotificacionFactory.crear_notificacion(tipo)
crear_directo ==
    /\ notifier = "pendiente"
    /\ notifier' = crear_notificacion(tipo)
    /\ UNCHANGED <<tipo, usuarios, listas, observadores, pc, snapshot, idx, mensaje,
                   salida, entregas, llamadas, inicio, mutaciones, resultado,
                   ultima>>

InitFabrica ==
    /\ listas = ListasPerfiles
    /\ usuarios = UsuariosPerfiles
    /\ InitResto
    /\ tipo \in Cadenas
    /\ notifier = "pendiente"

NextFabrica == crear_directo
SpecFabrica == InitFabrica /\ [][NextFabrica]_vars

\* Users built by Usuario(...) from argument lists: the caller holds one list
\* (reference 0) of at most MaxCanales entries; observer 1 is constructed
\* with it, observer 2 with it or with no list, the others with no list.
S_EMAIL == <<"E","M","A","I","L">>
S_email_esp == <<" ","e","m","a","i","l"," ">>
S_Sms_esp == <<"S","m","s"," ">>
CanalesMuestra ==
    {S_email, S_EMAIL, S_email_esp, S_sms, S_Sms_esp, S_push, S_telegram}
ListasMuestra == UNION {[1..n -> CanalesMuestra] : n \in 0..MaxCanales}

construidos(h0, args, em, tel) ==
    [o \in Obs |->
        Usuario(h0, Perfil(o).nombre,
                IF o = 1 THEN em ELSE Perfil(o).email,
                IF o = 1 THEN tel ELSE Perfil(o).telefono, args[o], o)]
heap_construidos(h0, args) ==
    [r \in Refs |->
        IF r = 0 THEN h0[0]
        ELSE IF truthy(h0, args[r]) THEN <<>> ELSE <<S_email>>]

InitUsuario ==
    /\ \E l0 \in ListasMuestra, a2 \in {{}, {0}},
          em \in {<<>>, S_mailA}, tel \in {<<>>, S_telB} :
          LET h0 == [r \in Refs |-> IF r = 0 THEN l0 ELSE <<>>]
              args == [o \in Obs |-> IF o = 1 THEN {0}
                                     ELSE IF o = 2 THEN a2 ELSE {}]
          IN /\ listas = heap_construidos(h0, args)
             /\ usuarios = construidos(h0, args, em, tel)
    /\ InitResto
    /\ tipo = <<>>
    /\ notifier = "pendiente"

\* a direct call u.actualizar(m) on observer o
actualizar_directo(o, m) ==
    /\ pc = "idle"
    /\ salida' = actualizar(listas, usuarios[o], m)
    /\ usuarios' = [usuarios EXCEPT ![o] = tras_actualizar(usuarios[o])]
    /\ ultima' = [op |-> "actualizar", obs |-> o, antes |-> <<>>,
                  mensaje |-> m]
    /\ UNCHANGED <<listas, observadores, pc, snapshot, idx, mensaje,
                   entregas, llamadas, inicio, mutaciones, resultado, tipo,
                   notifier>>

NextUsuario == \E o \in Obs, m \in Mensajes : actualizar_directo(o, m)
SpecUsuario == InitUsuario /\ [][NextUsuario]_vars

\* ------------------------------------------ construction and later appends
\* Users built by Usuario(...) and then changed as main() changes diego:
\* u.canales_preferidos.append("telegram").  The caller's list holds known
\* channels only; observer 1 is constructed with it and with a name that may
\* be the empty string, observer 2 with the same list object or with no list.
MaxAnexos == 2
ListasCortas == UNION {[1..n -> {S_email, S_sms}] : n \in 0..MaxCanales}

construidos_con(h0, args, n1) ==
    [o \in Obs |->
        Usuario(h0, IF o = 1 THEN n1 ELSE Perfil(o).nombre, Perfil(o).email,
                Perfil(o).telefono, args[o], o)]

InitAnexar ==
    /\ \E l0 \in ListasCortas, a2 \in {{}, {0}}, n1 \in {S_Alice, <<>>} :
          LET h0 == [r \in Refs |-> IF r = 0 THEN l0 ELSE <<>>]
              args == [o \in Obs |-> IF o = 1 THEN {0}
                                     ELSE IF o = 2 THEN a2 ELSE {}]
          IN /\ listas = heap_construidos(h0, args)
             /\ usuarios = construidos_con(h0, args, n1)
    /\ InitResto
    /\ tipo = <<>>
    /\ notifier = "pendiente"

\* the appends made so far: the "telegram" entries of the heap
anexados ==
    Cardinality({ri \in Refs \X (1..(MaxCanales + MaxAnexos)) :
                    /\ ri[2] <= Len(listas[ri[1]])
                    /\ listas[ri[1]][ri[2]] = S_telegram})

\* usuarios[o].canales_preferidos.append("telegram")
anexar_canal(o) ==
    /\ pc = "idle"
    /\ anexados < MaxAnexos
    /\ listas' = [listas EXCEPT ![usuarios[o].canales_preferidos] =
                                    Append(@, S_telegram)]
    /\ salida' = <<>>
    /\ ultima' = [op |-> "anexar", obs |-> o, antes |-> <<>>,
                  listas_antes |-> listas]
    /\ UNCHANGED <<usuarios, observadores, pc, snapshot, idx, mensaje,
                   entregas, llamadas, inicio, mutaciones, resultado, tipo,
                   notifier>>

NextAnexar ==
    \/ \E o \in Obs : anexar_canal(o)
    \/ \E o \in Obs, m \in Mensajes : actualizar_directo(o, m)
SpecAnexar == InitAnexar /\ [][NextAnexar]_vars

\* ----------------------------------------------------------------- claims
SinDuplicados(l) == \A i, j \in 1..Len(l) : i # j => l[i] # l[j]

\* the calls the loop has made, without their outcome
Llamados == [i \in 1..Len(llamadas) |-> <<llamadas[i].obs, llamadas[i].mensaje>>]
\* the calls a complete round over list l makes
Esperados(l) == [i \in 1..Len(l) |-> <<l[i], mensaje>>]
EsPrefijo(a, b) == Len(a) <= Len(b) /\ \A i \in 1..Len(a) : a[i] = b[i]
EnRonda == resultado \in {"en_curso", "normal", "propagada"}

\* C1: whatever agregar, eliminar and notificar calls were made, from the top
\* level or from inside an observer's actualizar, _observadores holds no
\* observer twice.
C1_SinDuplicados == SinDuplicados(observadores)

\* C1 witness: an observer already subscribed was added again from inside an
\* actualizar, with two observers subscribed.
C1_Testigo ==
    /\ pc = "en_actualizar"
    /\ ultima.op = "agregar"
    /\ contiene(ultima.antes, ultima.obs)
    /\ Len(observadores) >= 2

\* C2: in a round in which no actualizar called agregar or eliminar, the
\* calls made so far are actualizar(mensaje) on the first subscribed observers
\* in subscription order, and when notificar_observadores returns they are
\* exactly one call per subscribed observer, in that order, with the message
\* it was given.
C2_UnaLlamadaPorObservador ==
    (EnRonda /\ mutaciones = 0) =>
        /\ EsPrefijo(Llamados, Esperados(observadores))
        /\ resultado = "normal" => Llamados = Esperados(observadores)

\* C2 witness: a round without mutation returned after calling three
\* observers.
C2_Testigo ==
    /\ resultado = "normal"
    /\ mutaciones = 0
    /\ Len(llamadas) >= 3
    /\ Llamados = Esperados(observadores)

\* C3: whatever the observers add or remove during the round, the calls made
\* are on the observers subscribed when the round began, in their order, each
\* once, and all of them when notificar_observadores returns.
C3_RondaSobreCopia ==
    EnRonda =>
        /\ EsPrefijo(Llamados, Esperados(inicio))
        /\ resultado = "normal" => Llamados = Esperados(inicio)

\* C3 witness: the round has just called an observer that an earlier
\* actualizar of the same round removed, and the list has changed.
C3_Testigo ==
    /\ pc = "en_actualizar"
    /\ ultima = NingunaLlamada
    /\ Len(llamadas) >= 2
    /\ ~contiene(observadores, actual)
    /\ observadores # inicio

\* C4 as claimed: whatever an actualizar raises, the error line with the
\* observer and the detail is printed, the loop goes on, and
\* notificar_observadores never ends by passing the exception on.
C4_NuncaPropaga ==
    /\ resultado # "propagada"
    /\ ultima.op = "lanzar" =>
          /\ salida = <<[tipo |-> "error", obs |-> ultima.obs,
                         detalle |-> ultima.detalle]>>
          /\ pc = "bucle"

\* C4 amended: an exception that is an Exception is caught: the error line
\* with the observer and the detail is printed, the loop goes on with the next
\* observer of the copy and the round calls every observer of the copy; an
\* exception that derives from BaseException only (SystemExit) leaves
\* notificar_observadores, and nothing else does.
C4_CapturaException ==
    /\ ultima.op = "lanzar" =>
          IF ultima.tipo = "ValueError"
          THEN /\ salida = <<[tipo |-> "error", obs |-> ultima.obs,
                              detalle |-> ultima.detalle]>>
               /\ pc = "bucle"
               /\ resultado = "en_curso"
               /\ llamadas[Len(llamadas)].fin = "capturada"
               /\ idx = Len(llamadas)
          ELSE /\ resultado = "propagada"
               /\ salida = <<>>
    /\ resultado = "propagada" =>
          /\ llamadas # <<>>
          /\ llamadas[Len(llamadas)].fin = "propagada"
    /\ resultado = "normal" =>
          /\ Len(llamadas) = Len(inicio)
          /\ \A i \in 1..Len(llamadas) : llamadas[i].fin \in {"retorno", "capturada"}

\* C4 witness: a round returned normally although its first observer raised,
\* the observers after it having been called.
C4_Testigo ==
    /\ resultado = "normal"
    /\ Len(llamadas) >= 3
    /\ llamadas[1].fin = "capturada"
    /\ llamadas[Len(llamadas)].fin = "retorno"

\* C5: agregar_observador of a subscribed observer changes nothing and prints
\* nothing; of an observer not subscribed, it appends it at the end and prints
\* the one line "observador agregado".
C5_AgregarIdempotente ==
    ultima.op = "agregar" =>
        IF contiene(ultima.antes, ultima.obs)
        THEN observadores = ultima.antes /\ salida = <<>>
        ELSE /\ observadores = ultima.antes \o <<ultima.obs>>
             /\ salida = <<[tipo |-> "agregado", obs |-> ultima.obs]>>

\* C5 witness: the first of two subscribed observers is added again, and the
\* list stays as it was.
C5_Testigo ==
    /\ ultima.op = "agregar"
    /\ Len(ultima.antes) >= 2
    /\ ultima.antes[1] = ultima.obs
    /\ observadores = ultima.antes

\* C6: eliminar_observador of an observer not subscribed changes nothing and
\* prints nothing; of a subscribed observer, it prints the one line
\* "observador eliminado", drops that observer and keeps the others in order;
\* in both cases the observer is not subscribed afterwards.
C6_EliminarAusente ==
    ultima.op = "eliminar" =>
        /\ ~contiene(observadores, ultima.obs)
        /\ IF ~contiene(ultima.antes, ultima.obs)
           THEN observadores = ultima.antes /\ salida = <<>>
           ELSE /\ salida = <<[tipo |-> "eliminado", obs |-> ultima.obs]>>
                /\ observadores =
                      SelectSeq(ultima.antes, LAMBDA x : x # ultima.obs)

\* C6 witness: an observer that is not subscribed is removed while two others
\* are.
C6_Testigo ==
    /\ ultima.op = "eliminar"
    /\ ~contiene(ultima.antes, ultima.obs)
    /\ Len(ultima.antes) >= 2

\* s is the word w, each letter in either case, between two margins of
\* whitespace characters
Coincide(s, w) ==
    \E a \in 0..(Len(s) - Len(w)) :
        /\ \A i \in 1..Len(w) : s[a + i] \in {w[i], mayus(w[i])}
        /\ \A i \in 1..a : s[i] \in Whitespace
        /\ \A i \in (a + Len(w) + 1)..Len(s) : s[i] \in Whitespace

\* the sender the channel string names, by Coincide
SenderDe(c) ==
    IF Coincide(c, S_email) THEN "EmailNotificacion"
    ELSE IF Coincide(c, S_sms) THEN "SMSNotificacion"
    ELSE IF Coincide(c, S_push) THEN "PushNotificacion"
    ELSE "None"

\* C7: for every string crear_notificacion returns a result, and it is the
\* Email, SMS or Push sender exactly when the string is "email", "sms" or
\* "push" in any mix of cases between whitespace margins, and None for every
\* other string.
C7_FabricaNormaliza ==
    notifier # "pendiente" =>
        /\ notifier \in {"EmailNotificacion", "SMSNotificacion",
                         "PushNotificacion", "None"}
        /\ notifier = SenderDe(tipo)

\* C7 witness: a string with a margin on each side and an upper-case letter
\* gave the Email sender.
C7_Testigo ==
    /\ notifier = "EmailNotificacion"
    /\ Len(tipo) >= 7
    /\ tipo[1] \in Whitespace
    /\ tipo[Len(tipo)] \in Whitespace
    /\ \E i \in 1..Len(tipo) : tipo[i] = "M"

\* the user and the channel list of the last direct actualizar call
UltimoUsuario == usuarios[ultima.obs]
UltimosCanales == listas[UltimoUsuario.canales_preferidos]

\* the destination the rule of sender n gives for user u
DestinoDeSender(u, n) ==
    IF n = "EmailNotificacion"
    THEN (IF u.email # <<>> THEN u.email ELSE lower(u.nombre) \o S_dominio)
    ELSE IF n = "SMSNotificacion"
    THEN (IF u.telefono # <<>> THEN u.telefono ELSE S_ceros)
    ELSE u.nombre

\* C8 as claimed: every delivery of an actualizar call goes to the
\* destination of the rule of its sender: Email to the stored email or else
\* the lower-cased name plus "@example.com", SMS to the stored phone or else
\* "0000000000", Push to the name.
C8_DestinoSegunSender ==
    ultima.op = "actualizar" =>
        \A i \in 1..Len(salida) :
            salida[i].tipo = "envio" =>
                salida[i].destino = DestinoDeSender(UltimoUsuario, salida[i].sender)

\* the lines printed for the unknown channels, and the senders of the
\* deliveries, that a channel list must give
AvisosEsperados(u, cs) ==
    LET d == SelectSeq(cs, LAMBDA c : SenderDe(c) = "None")
    IN [i \in 1..Len(d) |->
           [tipo |-> "desconocido", nombre |-> u.nombre, canal |-> d[i]]]
SendersEsperados(cs) ==
    SelectSeq([i \in 1..Len(cs) |-> SenderDe(cs[i])], LAMBDA n : n # "None")

\* C9: an actualizar call prints one line per entry of the channel list after
\* its heading: for each unknown entry, in order, the warning with the user's
\* name and that entry and no delivery; for each other entry, in order, one
\* delivery by the sender the entry names, with the message; wherever the
\* unknown entries stand.
C9_CanalDesconocido ==
    ultima.op = "actualizar" =>
        LET cuerpo == SubSeq(salida, 2, Len(salida))
            envs == SelectSeq(cuerpo, EsEnvio)
        IN /\ Len(cuerpo) = Len(UltimosCanales)
           /\ \A i \in 1..Len(cuerpo) :
                 (cuerpo[i].tipo = "desconocido")
                    <=> (SenderDe(UltimosCanales[i]) = "None")
           /\ SelectSeq(cuerpo, LAMBDA l : l.tipo = "desconocido")
                 = AvisosEsperados(UltimoUsuario, UltimosCanales)
           /\ [i \in 1..Len(envs) |-> envs[i].sender]
                 = SendersEsperados(UltimosCanales)
           /\ \A i \in 1..Len(envs) : envs[i].mensaje = ultima.mensaje

\* C9 witness: an unknown entry stands between two known ones, and both are
\* delivered.
C9_Testigo ==
    /\ ultima.op = "actualizar"
    /\ Len(salida) = 4
    /\ salida[2].tipo = "envio"
    /\ salida[3].tipo = "desconocido"
    /\ salida[3].canal = S_telegram
    /\ salida[4].tipo = "envio"

\* the deliveries a round makes for the calls cs: observer by observer, each
\* observer's known channel entries in list order
RECURSIVE EntregasEsperadas(_)
EntregasEsperadas(cs) ==
    IF cs = <<>> THEN <<>>
    ELSE LET o == cs[Len(cs)].obs
             ss == SendersEsperados(listas[usuarios[o].canales_preferidos])
         IN EntregasEsperadas(SubSeq(cs, 1, Len(cs) - 1)) \o
            [i \in 1..Len(ss) |-> <<o, ss[i], cs[Len(cs)].mensaje>>]

\* C10: the deliveries of a round are those of the observers called, in the
\* order of the calls (the subscription order of the round); each call gives
\* one delivery per known entry of the observer's channel list, in list
\* order, repeated entries delivering once per occurrence.
C10_OrdenDeEntregas ==
    EnRonda =>
        [i \in 1..Len(entregas) |->
            <<entregas[i].obs, entregas[i].envio.sender, entregas[i].envio.mensaje>>]
        = EntregasEsperadas(llamadas)

\* C10 witness: a complete round over three observers, one of them with a
\* repeated channel, made five deliveries; the first and the last come from
\* different observers.
C10_Testigo ==
    /\ resultado = "normal"
    /\ Len(llamadas) = 3
    /\ Len(entregas) >= 5
    /\ entregas[1].obs # entregas[Len(entregas)].obs
    /\ \E i \in 1..(Len(entregas) - 1) :
          /\ entregas[i].obs = entregas[i + 1].obs
          /\ entregas[i].envio.sender = entregas[i + 1].envio.sender

\* the deliveries of a round, as <<observer, sender, destination, message>>
Entregado ==
    [i \in 1..Len(entregas) |->
        <<entregas[i].obs, entregas[i].envio.sender, entregas[i].envio.destino,
          entregas[i].envio.mensaje>>]

\* C11: a round that began with Alice (channels email, push) and Bob (sms)
\* subscribed in that order and returned has made exactly three deliveries,
\* Alice by email, Alice by push, Bob by SMS, each with the round's message;
\* a round that began with Alice alone (Bob removed) has made exactly Alice's
\* two, and none for Bob.
C11_EscenarioAliceBob ==
    resultado = "normal" =>
        /\ inicio = <<1, 2>> =>
              Entregado = << <<1, "EmailNotificacion", S_mailA, mensaje>>,
                             <<1, "PushNotificacion", S_Alice, mensaje>>,
                             <<2, "SMSNotificacion", S_telB, mensaje>> >>
        /\ inicio = <<1>> =>
              Entregado = << <<1, "EmailNotificacion", S_mailA, mensaje>>,
                             <<1, "PushNotificacion", S_Alice, mensaje>> >>

\* C11 witness: after Bob was removed from Alice and Bob, the round with "Y"
\* returned with Alice's two deliveries.
C11_Testigo ==
    /\ resultado = "normal"
    /\ inicio = <<1>>
    /\ mensaje = "Y"
    /\ Len(entregas) = 2
    /\ \A i \in 1..2 : entregas[i].obs = 1 /\ entregas[i].envio.mensaje = "Y"
    /\ usuarios[1].nombre = S_Alice
    /\ usuarios[2].nombre = S_Bob

\* the placeholder addresses of the users' names, written out
S_diego_mail == <<"d","i","e","g","o","@","e","x","a","m","p","l","e",".","c","o","m">>
S_alice_mail == <<"a","l","i","c","e","@","e","x","a","m","p","l","e",".","c","o","m">>
S_bob_mail == <<"b","o","b","@","e","x","a","m","p","l","e",".","c","o","m">>
MailDeNombre(n) ==
    IF n = S_Diego THEN S_diego_mail
    ELSE IF n = S_Alice THEN S_alice_mail
    ELSE IF n = S_Bob THEN S_bob_mail
    ELSE <<>>

\* C12: actualizar on a user with no email and channels ["email"] prints its
\* heading and exactly one Email delivery, to the user's name in lower case
\* plus "@example.com" ("Diego" gives "diego@example.com"); on a user with no
\* phone and channels ["sms"], exactly one SMS delivery to "0000000000".
C12_CamposVacios ==
    ultima.op = "actualizar" =>
        /\ (UltimosCanales = <<S_email>> /\ UltimoUsuario.email = <<>>) =>
              /\ Len(salida) = 2
              /\ salida[1].tipo = "recibe"
              /\ salida[2] = [tipo |-> "envio", sender |-> "EmailNotificacion",
                              destino |-> MailDeNombre(UltimoUsuario.nombre),
                              mensaje |-> ultima.mensaje]
        /\ (UltimosCanales = <<S_sms>> /\ UltimoUsuario.telefono = <<>>) =>
              /\ Len(salida) = 2
              /\ salida[1].tipo = "recibe"
              /\ salida[2] = [tipo |-> "envio", sender |-> "SMSNotificacion",
                              destino |-> S_ceros, mensaje |-> ultima.mensaje]

\* C12 witness: Diego, with no email and the channels ["email"], got his one
\* delivery at "diego@example.com".
C12_Testigo ==
    /\ ultima.op = "actualizar"
    /\ UltimoUsuario.nombre = S_Diego
    /\ UltimoUsuario.email = <<>>
    /\ UltimosCanales = <<S_email>>
    /\ Len(salida) = 2
    /\ salida[2].destino = S_diego_mail

\* C13: no Usuario has the empty string as its name.
C13_NombreNoVacio == \A o \in Obs : usuarios[o].nombre # <<>>

\* the channel list of observer o in heap h
CanalesDe(h, o) == h[usuarios[o].canales_preferidos]

\* C18: after u.canales_preferidos.append(c) on one user, the channel list of
\* every other user is what it was before, also of a user constructed from
\* the same list.
C18_AnexarSoloAUno ==
    ultima.op = "anexar" =>
        \A o \in Obs \ {ultima.obs} :
            CanalesDe(listas, o) = CanalesDe(ultima.listas_antes, o)

\* C14: as constructed, no user's channel list is empty.  Observer 1, built
\* from the caller's list, has ["email"] in a list of its own when that list
\* is empty and otherwise the caller's entries in their order; a user built
\* with no list has ["email"]; observer 2, built either way, has one of the
\* two.
C14_CanalesPorDefecto ==
    /\ \A o \in Obs : CanalesDe(listas, o) # <<>>
    /\ IF listas[0] = <<>>
       THEN /\ CanalesDe(listas, 1) = <<S_email>>
            /\ usuarios[1].canales_preferidos # 0
       ELSE CanalesDe(listas, 1) = listas[0]
    /\ CanalesDe(listas, 2) \in {<<S_email>>, listas[0]}
    /\ \A o \in Obs \ {1, 2} : CanalesDe(listas, o) = <<S_email>>

\* C14 witness: observer 1 was given an empty list and has ["email"], while
\* the caller's list is still empty.
C14_Testigo ==
    /\ listas[0] = <<>>
    /\ usuarios[1].canales_preferidos = 1
    /\ listas[1] = <<S_email>>
    /\ CanalesDe(listas, 3) = <<S_email>>

\* the observers the round has called
ObsLlamados == [i \in 1..Len(llamadas) |-> llamadas[i].obs]

\* what holds of a round at every moment, whatever its observers add
C15_Cuenta ==
    /\ (pc = "bucle" /\ idx = 0) => snapshot = observadores
    /\ pc \in {"bucle", "en_actualizar"} =>
          /\ snapshot = inicio
          /\ idx = Len(llamadas)
          /\ idx <= Len(inicio)
    /\ EnRonda =>
          /\ Len(llamadas) <= Len(inicio)
          /\ \A i \in 1..Len(llamadas) : contiene(inicio, llamadas[i].obs)
          /\ resultado = "normal" => ObsLlamados = inicio

\* C15: a round that has begun ends; the loop walks the copy taken when it
\* began (the first iteration finds it equal to the list, so observers added
\* in an earlier round are in it), it never makes more calls than that copy
\* has observers nor calls an observer that was not in it, and when
\* notificar_observadores returns it has called each of them, so as many
\* calls as observers were subscribed when it began.
C15_TerminaYCuenta ==
    /\ []C15_Cuenta
    /\ (resultado = "en_curso") ~> (resultado \in {"normal", "propagada"})

\* C15 witness: a round over one observer returned after one call, in which
\* that observer added two observers that were not subscribed; they are
\* subscribed now and were not called.
C15_Testigo ==
    /\ resultado = "normal"
    /\ Len(inicio) = 1
    /\ mutaciones = 2
    /\ Len(observadores) = 3
    /\ Len(llamadas) = 1
    /\ pc = "idle"

\* l with every entry equal to o left out, the others in their order
SinObservador(l, o) ==
    LET otro(x) == x # o
    IN SelectSeq(l, otro)

\* C16: after eliminar_observador(o) the list is the earlier list without o,
\* the others in the order they had; after agregar_observador(o) an observer
\* that was not subscribed stands last, behind all the others in the order
\* they had, and one that was subscribed leaves the list as it was; so an
\* observer removed and then added again stands behind every observer that
\* stayed.  (The loop calls in list order: C2, C3.)
C16_OrdenDeInsercion ==
    /\ [](/\ ultima.op = "eliminar" =>
                observadores = SinObservador(ultima.antes, ultima.obs)
          /\ ultima.op = "agregar" =>
                observadores =
                    IF contiene(ultima.antes, ultima.obs)
                    THEN ultima.antes
                    ELSE ultima.antes \o <<ultima.obs>>)
    /\ [][(/\ ultima.op = "eliminar"
           /\ ultima'.op = "agregar"
           /\ ultima'.obs = ultima.obs)
          => observadores' =
                SinObservador(ultima.antes, ultima.obs) \o <<ultima.obs>>]_vars

\* C16 witness: the observer that stood first when the round began was
\* removed and added again inside the round, by these two calls only, and
\* stands last now, behind the two that stayed, which are in their order.
C16_Testigo ==
    /\ pc = "en_actualizar"
    /\ mutaciones = 2
    /\ ultima.op = "agregar"
    /\ ~contiene(ultima.antes, ultima.obs)
    /\ Len(inicio) = 3
    /\ inicio[1] = ultima.obs
    /\ observadores = <<inicio[2], inicio[3], inicio[1]>>

\* C17: whatever rounds were run, every user has the name, email, phone and
\* channel list it was built with, and the lists hold what they held; and in
\* a round in which no actualizar has called agregar or eliminar the
\* subject's list is the one the round began with.
C17_SoloLectura ==
    /\ usuarios = UsuariosPerfiles
    /\ listas = ListasPerfiles
    /\ (EnRonda /\ mutaciones = 0) => observadores = inicio

\* C17 witness: a round over three observers returned without a call of
\* agregar or eliminar; in it Diego, whose email is empty and whose list has
\* an unknown channel, was sent the email at the placeholder address.
C17_Testigo ==
    /\ resultado = "normal"
    /\ mutaciones = 0
    /\ Len(inicio) = 3
    /\ observadores = inicio
    /\ usuarios[3].email = <<>>
    /\ contiene(CanalesDe(listas, 3), S_telegram)
    /\ \E i \in 1..Len(entregas) :
          /\ entregas[i].obs = 3
          /\ entregas[i].envio.destino = S_diego_mail
====
